---- MODULE Spec2Model ----
(***************************************************************************)
(* Model of the document chunking engine (src/src/chunker.py), of the     *)
(* buffered storage that feeds on it (src/src/database.py) and of the     *)
(* sidecar of the HTML shredder (src/src/shredder.py).                     *)
(*                                                                         *)
(* Strings are sequences of pieces.  A piece is a TLA+ string standing for *)
(* a fixed run of characters: a whole sentence ("s", "b", "z"), the       *)
(* separators " " and "\n\n" that the code inserts, a title fragment, or   *)
(* one of the characters "/", "|" and the decimal digits.  No piece is a   *)
(* concatenation of other pieces, so two piece sequences are equal exactly *)
(* when the Python strings they stand for are equal.                       *)
(***************************************************************************)
EXTENDS Integers, Sequences, FiniteSets, TLC

\* ---------------------------------------------------------------- bounds
MaxParas == 4        \* paragraphs in a section handed to the section chunker
MaxSents == 4        \* sentences of a paragraph handed directly to the split
MaxOverlap == 2      \* largest SENTENCE_OVERLAP setting explored
MaxLines == 4        \* lines of a document handed to chunk_article
MaxPathLen == 2      \* titles in a section path handed directly to _emit_chunk

\* ------------------------------------------------------ program constants
MIN_TOKENS == 80
TARGET_TOKENS == 220
MAX_TOKENS == 300
SENTENCE_OVERLAP == 1

None == -1           \* Python None in an Optional[int] field
SP == " "            \* separator of " ".join(window)
PB == "\n\n"         \* blank-line separator of a merge candidate
BLANKS == "_"        \* a run of 400 spaces: a text with no sentence in it

\* ------------------------------------------------------------- sentences
\* "s": a sentence of 77 whitespace-separated words,
\* "b": a sentence of 230 words,
\* "z": the one-word sentence "!" (no alphanumeric word in it).
Sentences == {"z", "s", "b"}
\* "t": a sentence of 70 words, used by the ten-sentence paragraph only
LongParagraphSentence == "t"
ParaSentences == {"s", "b"}

\* ------------------------------------------------------------ tokenizers
\* An injected tokenizer is a deterministic function of the text: a count
\* per sentence plus a constant per call, and a set of texts on which the call
\* raises instead of returning.  A piece outside the domain of w carries no
\* token: the separators, and the run of spaces, for a tokenizer that counts words.
WhitespaceTokenizer ==
    [base |-> 0, w |-> [x \in Sentences \cup {LongParagraphSentence} |->
              CASE x = "z" -> 1 [] x = "s" -> 77 [] x = "t" -> 70 [] OTHER -> 230],
     raises |-> {}]
\* len(model.tokenizer.encode(text)): the word pieces plus two special tokens per call
SpecialTokenizer ==
    [base |-> 2, w |-> [x \in Sentences \cup {LongParagraphSentence} |->
              CASE x = "z" -> 1 [] x = "s" -> 77 [] x = "t" -> 70 [] OTHER -> 230],
     raises |-> {}]
\* counts alphanumeric words only: the sentence "!" has none
AlnumTokenizer ==
    [base |-> 0, w |-> [x \in Sentences \cup {LongParagraphSentence} |->
              CASE x = "z" -> 0 [] x = "s" -> 77 [] x = "t" -> 70 [] OTHER -> 230],
     raises |-> {}]
\* tokenizer_func = len: one token per character, whitespace included
CharTokenizer ==
    [base |-> 0,
     w |-> [x \in Sentences \cup {LongParagraphSentence, SP, PB, BLANKS} |->
              CASE x = "z" -> 1 [] x = "s" -> 154 [] x = "b" -> 460 [] x = "t" -> 140
                [] x = SP -> 1 [] x = PB -> 2 [] OTHER -> 400],
     raises |-> {}]
Tokenizers == {WhitespaceTokenizer, SpecialTokenizer, AlnumTokenizer, CharTokenizer}

RECURSIVE PieceTokens(_, _)
PieceTokens(w, text) ==
    IF text = <<>> THEN 0
    ELSE (IF Head(text) \in DOMAIN w THEN w[Head(text)] ELSE 0) + PieceTokens(w, Tail(text))

\* self.tokenizer(text)
Tok(tk, text) == tk.base + PieceTokens(tk.w, text)

\* self.tokenizer(text) raises
Raises(tk, text) == text \in tk.raises

\* ------------------------------------------------------------ text helpers
Max(a, b) == IF a >= b THEN a ELSE b

RECURSIVE Join(_, _)
\* sep.join(parts): parts is a sequence of strings, sep a string
Join(sep, parts) ==
    IF parts = <<>> THEN <<>>
    ELSE IF Len(parts) = 1 THEN parts[1]
    ELSE parts[1] \o sep \o Join(sep, Tail(parts))

\* " ".join(window) for a window of sentences
JoinSentences(window) == Join(<<SP>>, [k \in 1..Len(window) |-> <<window[k]>>])

\* the fragments kept although they hold nothing but whitespace
SplitSentencesKeepingBlank(text) == SelectSeq(text, LAMBDA x : x \notin {SP, PB})

\* _split_sentences: cut at the whitespace that follows a sentence end, drop
\* empty fragments.  Every sentence piece ends with its punctuation mark and
\* has no inner split point.
SplitSentences(text) == SelectSeq(text, LAMBDA x : x \notin {SP, PB, BLANKS})

RECURSIVE Str(_)
\* str(n) for n >= 0
Str(n) ==
    LET d == <<"0", "1", "2", "3", "4", "5", "6", "7", "8", "9">>
    IN IF n < 10 THEN <<d[n + 1]>> ELSE Str(n \div 10) \o <<d[(n % 10) + 1]>>

RECURSIVE SeqsUpTo(_, _)
\* all sequences over S of length 0..n
SeqsUpTo(S, n) ==
    IF n = 0 THEN {<<>>}
    ELSE LET shorter == SeqsUpTo(S, n - 1)
         IN shorter \cup {Append(q, x) : q \in {r \in shorter : Len(r) = n - 1}, x \in S}

\* ------------------------------------------------------------ ChunkIdentity
\* sub_str of _emit_chunk
SubStr(sub_idx) == IF sub_idx # None THEN Str(sub_idx) ELSE <<>>

\* path_str of _emit_chunk
PathStr(section_path) == Join(<<"/">>, section_path)

\* raw_id of _emit_chunk: the canonical string that is digested
RawId(article_id, section_path, p_idx, sub_idx) ==
    article_id \o <<"|">> \o PathStr(section_path) \o <<"|">> \o Str(p_idx)
        \o <<"|">> \o SubStr(sub_idx)

\* chunk_id: md5(raw_id)[:16] is a function of raw_id alone; the chunk_id is
\* represented by the string it digests.
ChunkId(article_id, section_path, p_idx, sub_idx) ==
    RawId(article_id, section_path, p_idx, sub_idx)

\* an emitter that records an empty path for the chunks of the root
EmitChunkRootless(chunks_list, article_id, section_path, text, tokens, c_type, p_idx, sub_idx) ==
    Append(chunks_list,
           [chunk_id |-> ChunkId(article_id, section_path, p_idx, sub_idx),
            article_id |-> article_id,
            text |-> text,
            token_count |-> tokens,
            chunk_type |-> c_type,
            section_path |-> IF section_path = <<<<"Root">>>> THEN <<>> ELSE section_path,
            paragraph_index |-> p_idx,
            subchunk_index |-> sub_idx])

\* _emit_chunk: the list with one Chunk appended
EmitChunk(chunks_list, article_id, section_path, text, tokens, c_type, p_idx, sub_idx) ==
    Append(chunks_list,
           [chunk_id |-> ChunkId(article_id, section_path, p_idx, sub_idx),
            article_id |-> article_id,
            text |-> text,
            token_count |-> tokens,
            chunk_type |-> c_type,
            section_path |-> section_path,
            paragraph_index |-> p_idx,
            subchunk_index |-> sub_idx])

\* ------------------------------------------------------ merge/split policy
\* a paragraph counted as small as long as it is below TARGET
IsSmallBelowTarget(tokens, c) == tokens < c.target

\* `if tokens < MIN_TOKENS` (Rule 2 Case B)
IsSmall(tokens, c) == tokens < c.min

\* a merge test that lets the candidate run past the ceiling by one small paragraph
MergeFitsLoose(merged_tokens, c) == merged_tokens <= c.max + c.min

\* `if merged_tokens <= MAX_TOKENS`
MergeFits(merged_tokens, c) == merged_tokens <= c.max

\* a paragraph emitted whole up to MAX + MIN tokens
FitsAsParagraphLoose(tokens, c) == tokens <= c.max + c.min

\* `if tokens <= MAX_TOKENS` (Case A, else Case C)
FitsAsParagraph(tokens, c) == tokens <= c.max

\* the candidate with the new paragraph in front of the buffer
MergedCandidateReversed(buf, paragraph_text) == paragraph_text \o <<PB>> \o buf

\* merged_candidate = buffer_text + "\n\n" + paragraph_text
MergedCandidate(buf, paragraph_text) == buf \o <<PB>> \o paragraph_text

\* An Optional[str]: <<>> is None, <<t>> is the string t
NoneText == <<>>
Some(t) == <<t>>

\* a flush that forgets what the buffer held
FlushBufferDropped(chunks_list, tk, aid, path, buf, buf_idx) == chunks_list

\* emit the buffer as a "merged" chunk when there is one
FlushBuffer(chunks_list, tk, aid, path, buf, buf_idx) ==
    IF buf # NoneText
    THEN EmitChunk(chunks_list, aid, path, buf[1], Tok(tk, buf[1]), "merged", buf_idx, None)
    ELSE chunks_list

\* the paragraph emitted before the pending buffer
ParagraphThenFlush(chunks_list, tk, aid, path, buf, buf_idx, paragraph_text, tokens, idx) ==
    FlushBuffer(EmitChunk(chunks_list, aid, path, paragraph_text, tokens, "paragraph", idx, None),
                tk, aid, path, buf, buf_idx)

\* the paragraph branch for tokens in MIN..MAX: flush the buffer, then emit
\* the paragraph verbatim
FlushThenParagraph(chunks_list, tk, aid, path, buf, buf_idx, paragraph_text, tokens, idx) ==
    EmitChunk(FlushBuffer(chunks_list, tk, aid, path, buf, buf_idx),
              aid, path, paragraph_text, tokens, "paragraph", idx, None)

\* ------------------------------------------------------ sentence windows
RECURSIVE BuildWindowCapped(_, _, _, _, _)
RECURSIVE BuildWindow(_, _, _, _, _)
\* a loop that also stops before the sentence that would take the window above MAX_TOKENS
BuildWindowCapped(tk, sents, k, sum, target) ==
    LET s_len == Tok(tk, <<sents[k + 1]>>)
        token_sum == sum + s_len
        k2 == k + 1
    IN IF \/ token_sum >= target
          \/ k2 >= Len(sents)
          \/ token_sum + Tok(tk, <<sents[k2 + 1]>>) > MAX_TOKENS
       THEN [i |-> k2, token_sum |-> token_sum]
       ELSE BuildWindowCapped(tk, sents, k2, token_sum, target)
\* the inner loop of _split_long_paragraph from cursor k (0-based, k < len)
\* with running sum: append, add, advance, stop at TARGET or at the end
BuildWindow(tk, sents, k, sum, target) ==
    LET s_len == Tok(tk, <<sents[k + 1]>>)
        token_sum == sum + s_len
        k2 == k + 1
    IN IF token_sum >= target \/ k2 >= Len(sents)
       THEN [i |-> k2, token_sum |-> token_sum]
       ELSE BuildWindow(tk, sents, k2, token_sum, target)

\* the overlap without its safety clamp
OverlapCountUnclamped(overlap, window_len) == overlap

\* the clamp value used whatever the configured overlap is
OverlapCountAlwaysClamp(overlap, window_len) == Max(0, window_len - 1)

\* overlap_count after the safety clamp
OverlapCount(overlap, window_len) ==
    IF overlap >= window_len THEN Max(0, window_len - 1) ELSE overlap

\* the backtrack with its sign inverted
NextCursorForward(i_end, n, overlap_count) ==
    IF i_end < n THEN i_end + overlap_count ELSE i_end

\* the cursor after a window that ended at i_end: backtrack only if more remains
NextCursor(i_end, n, overlap_count) ==
    IF i_end < n THEN i_end - overlap_count ELSE i_end

\* a 1-based window counter
SubIdxInitOne == 0 + 1

\* sub_idx = 0 at the start of a split
SubIdxInit == 0

\* ------------------------------------------------------------------ state
VARIABLES
    cfg,            \* MIN_TOKENS, TARGET_TOKENS, MAX_TOKENS, SENTENCE_OVERLAP in force
    tokenizer,      \* self.tokenizer
    tokenizer_func, \* the argument of UniversalChunker(tokenizer_func=None)
    article_id,     \* the document id
    sections,       \* the Section objects, in creation order; 1 is the root
    cur,            \* index of the section being chunked
    i,              \* loop index of _process_section_content
    buffer_text,    \* Optional[str]
    buffer_idx,
    chunks,         \* the chunk list of the section being chunked
    sentences,      \* _split_long_paragraph: sentences
    cursor,         \* _split_long_paragraph: i
    sub_idx,        \* _split_long_paragraph: sub_idx
    starts,         \* the values of the cursor at which the windows of this split began
    out,            \* chunks of _recursive_chunk_process, extended section by section
    lines,          \* _parse_markdown_structure: text.split('\n'), each line classified
    ln,             \* number of lines consumed by the `for line in lines` loop
    section_stack,
    current_section,
    current_paragraph_lines,
    todo,           \* sections still to visit by _recursive_chunk_process, next first
    run,            \* which call of chunk_article on this chunker is in progress
    first,          \* what the first call returned
    returned,       \* what each call of _process_section_content returned, in call order
    keys,           \* two (article_id, section_path, p_idx, sub_idx) handed to _emit_chunk
    installed,      \* psycopg, pgvector and sentence_transformers could all be imported
    batch_size,     \* WikiStorage.batch_size
    article_buffer, \* WikiStorage._article_buffer
    asset_buffer,   \* WikiStorage._asset_buffer
    chunk_buffer,   \* WikiStorage._chunk_buffer
    db_articles,    \* the rows of table articles, in insertion order
    db_assets,      \* the rows of table assets
    db_chunks,      \* the rows of table chunks
    added,          \* the (zim_path, processed_data) of the add_article calls so far
    at_call,        \* the three buffers as they were when the last add_article call began
    html,           \* WikiShredder.process: the elements of the document being processed
    sidecar,        \* the dict object WikiShredder.sidecar refers to
    processed,      \* the dicts returned by the process calls so far
    observed,       \* per call: the ids it generated, the sidecar as it was at its return
    pc

inputVars == <<cfg, tokenizer, article_id, sections>>
sectionVars == <<cur, i, buffer_text, buffer_idx>>
splitVars == <<sentences, cursor, sub_idx, starts>>
parseVars == <<lines, ln, section_stack, current_section, current_paragraph_lines>>
bufferVars == <<article_buffer, asset_buffer, chunk_buffer>>
tableVars == <<db_articles, db_assets, db_chunks>>
storeVars == <<installed, batch_size, bufferVars, tableVars, added, at_call>>
shredVars == <<html, sidecar, processed, observed>>
runVars == <<run, first, keys, returned, tokenizer_func, storeVars, shredVars>>
vars == <<cfg, tokenizer, tokenizer_func, article_id, sections, cur, i, buffer_text, buffer_idx,
          chunks, sentences, cursor, sub_idx, starts, out, lines, ln, section_stack,
          current_section, current_paragraph_lines, todo, run, first, keys, returned,
          storeVars, shredVars, pc>>

\* no WikiStorage in the picture: the chunker is used on its own
NoStorage ==
    /\ installed = FALSE
    /\ batch_size = 1
    /\ article_buffer = <<>>
    /\ asset_buffer = <<>>
    /\ chunk_buffer = <<>>
    /\ db_articles = <<>>
    /\ db_assets = <<>>
    /\ db_chunks = <<>>
    /\ added = <<>>
    /\ at_call = <<<<>>, <<>>, <<>>>>

\* WikiShredder.__init__: the sidecar is one dict of four empty dicts
EmptySidecar == [images |-> <<>>, tables |-> <<>>, infoboxes |-> <<>>, formulas |-> <<>>]

\* no WikiShredder in the picture, or one on which process was not called yet
NoShredder ==
    /\ html = <<>>
    /\ sidecar = EmptySidecar
    /\ processed = <<>>
    /\ observed = <<>>

DefaultConfig ==
    [min |-> MIN_TOKENS, target |-> TARGET_TOKENS, max |-> MAX_TOKENS,
     overlap |-> SENTENCE_OVERLAP]
Configs == {[DefaultConfig EXCEPT !.overlap = o] : o \in 0..MaxOverlap}
ValidConfig(c) == c.min < c.target /\ c.target <= c.max /\ c.overlap >= 0

section == sections[cur]
paragraph_text == section.content[i + 1]
tokens == Tok(tokenizer, paragraph_text)

\* the tokenizer calls of one pass of the paragraph loop, in the order of lines
\* 150-190: the paragraph, then the merge candidate, then the flushed buffer
ParagraphCallRaises ==
    /\ i < Len(section.content)
    /\ \/ Raises(tokenizer, paragraph_text)
       \/ /\ buffer_text # NoneText
          /\ IF IsSmall(tokens, cfg)
             THEN LET merged_candidate == MergedCandidate(buffer_text[1], paragraph_text)
                  IN \/ Raises(tokenizer, merged_candidate)
                     \/ /\ ~MergeFits(Tok(tokenizer, merged_candidate), cfg)
                        /\ Raises(tokenizer, buffer_text[1])
             ELSE Raises(tokenizer, buffer_text[1])

\* the tokenizer call of the final flush (line 203)
FinalCallRaises ==
    /\ i >= Len(section.content)
    /\ buffer_text # NoneText
    /\ Raises(tokenizer, buffer_text[1])

\* a tokenizer call of the inner loop (line 226) on a sentence of the window
\* that starts at the cursor
WindowCallRaises ==
    /\ cursor < Len(sentences)
    /\ \E k \in (cursor + 1)..BuildWindow(tokenizer, sentences, cursor, 0, cfg.target).i :
          Raises(tokenizer, <<sentences[k]>>)

\* the next step of the chunker makes a tokenizer call that raises
CallRaises ==
    \/ pc = "para" /\ (ParagraphCallRaises \/ FinalCallRaises)
    \/ pc = "split" /\ WindowCallRaises

\* a chunk list under construction handed to the caller all the same
PartialOnRaise(list) == list

\* a chunk list under construction when an exception leaves the frame that
\* holds it: nothing of it reaches the caller
Unwound(list) == <<>>

\* a Section as the dataclass builds it
Section(title, level, path, content) ==
    [title |-> title, level |-> level, path |-> path, content |-> content,
     subsections |-> <<>>]

\* paragraphs of the sections handed to the section chunker: one short
\* sentence, two sentences of which one at least is short, or nothing but spaces
ParaPool ==
    {<<"s">>, <<BLANKS>>}
        \cup ({JoinSentences(<<x, y>>) : x, y \in ParaSentences}
                 \ {JoinSentences(<<"b", "b">>)})

\* ---------------------------------------------------- section chunker steps
\* tokens < MIN, empty buffer: start the buffer
BufferStart ==
    /\ pc = "para" /\ i < Len(section.content)
    /\ ~CallRaises
    /\ IsSmall(tokens, cfg)
    /\ buffer_text = NoneText
    /\ buffer_text' = Some(paragraph_text)
    /\ buffer_idx' = i
    /\ i' = i + 1
    /\ UNCHANGED <<inputVars, parseVars, runVars, todo, cur, chunks, splitVars, out, pc>>

\* tokens < MIN, the candidate fits: the buffer grows, its index stays
BufferMerge ==
    /\ pc = "para" /\ i < Len(section.content)
    /\ ~CallRaises
    /\ IsSmall(tokens, cfg)
    /\ buffer_text # NoneText
    /\ LET merged_candidate == MergedCandidate(buffer_text[1], paragraph_text)
           merged_tokens == Tok(tokenizer, merged_candidate)
       IN /\ MergeFits(merged_tokens, cfg)
          /\ buffer_text' = Some(merged_candidate)
    /\ i' = i + 1
    /\ UNCHANGED <<inputVars, parseVars, runVars, todo, cur, buffer_idx, chunks, splitVars, out, pc>>

\* tokens < MIN, the candidate does not fit: emit the buffer, restart it
BufferOverflow ==
    /\ pc = "para" /\ i < Len(section.content)
    /\ ~CallRaises
    /\ IsSmall(tokens, cfg)
    /\ buffer_text # NoneText
    /\ LET merged_candidate == MergedCandidate(buffer_text[1], paragraph_text)
           merged_tokens == Tok(tokenizer, merged_candidate)
       IN ~MergeFits(merged_tokens, cfg)
    /\ chunks' = FlushBuffer(chunks, tokenizer, article_id, section.path,
                             buffer_text, buffer_idx)
    /\ buffer_text' = Some(paragraph_text)
    /\ buffer_idx' = i
    /\ i' = i + 1
    /\ UNCHANGED <<inputVars, parseVars, runVars, todo, cur, splitVars, out, pc>>

\* MIN <= tokens <= MAX: flush the buffer, emit the paragraph
EmitParagraph ==
    /\ pc = "para" /\ i < Len(section.content)
    /\ ~CallRaises
    /\ ~IsSmall(tokens, cfg)
    /\ FitsAsParagraph(tokens, cfg)
    /\ chunks' = FlushThenParagraph(chunks, tokenizer, article_id, section.path,
                                    buffer_text, buffer_idx, paragraph_text, tokens, i)
    /\ buffer_text' = NoneText
    /\ buffer_idx' = -1
    /\ i' = i + 1
    /\ UNCHANGED <<inputVars, parseVars, runVars, todo, cur, splitVars, out, pc>>

\* tokens > MAX: flush the buffer, enter _split_long_paragraph
SplitCall ==
    /\ pc = "para" /\ i < Len(section.content)
    /\ ~CallRaises
    /\ ~IsSmall(tokens, cfg)
    /\ ~FitsAsParagraph(tokens, cfg)
    /\ chunks' = FlushBuffer(chunks, tokenizer, article_id, section.path,
                             buffer_text, buffer_idx)
    /\ buffer_text' = NoneText
    /\ buffer_idx' = -1
    /\ sentences' = SplitSentences(paragraph_text)
    /\ cursor' = 0
    /\ sub_idx' = SubIdxInit
    /\ starts' = <<>>
    /\ pc' = "split"
    /\ UNCHANGED <<inputVars, parseVars, runVars, todo, cur, i, out>>

\* a counter that stays where it is
NextSubIdxStuck(idx) == idx

\* sub_idx += 1 after each emitted window
NextSubIdx(idx) == idx + 1

\* one pass of the outer loop: build a window, emit it, move the cursor
SplitWindow ==
    /\ pc = "split" /\ cursor < Len(sentences)
    /\ ~CallRaises
    /\ LET r == BuildWindow(tokenizer, sentences, cursor, 0, cfg.target)
           window == SubSeq(sentences, cursor + 1, r.i)
           chunk_text == JoinSentences(window)
           overlap_count == OverlapCount(cfg.overlap, Len(window))
       IN /\ chunks' = EmitChunk(chunks, article_id, section.path, chunk_text,
                                 r.token_sum, "split", i, sub_idx)
          /\ cursor' = NextCursor(r.i, Len(sentences), overlap_count)
    /\ sub_idx' = NextSubIdx(sub_idx)
    /\ starts' = Append(starts, cursor)
    /\ UNCHANGED <<inputVars, parseVars, runVars, todo, sectionVars, sentences, out, pc>>

\* the outer loop is over (or there was no sentence): back in the paragraph loop
SplitReturn ==
    /\ pc = "split" /\ cursor >= Len(sentences)
    /\ pc' = "para"
    /\ i' = i + 1
    /\ UNCHANGED <<inputVars, parseVars, runVars, todo, cur, buffer_text, buffer_idx, chunks, splitVars, out>>

\* the subsections visited after everything that was already waiting
PendingSubsectionsLast(subsections, waiting) == waiting \o subsections

\* the recursion of _recursive_chunk_process as a stack: the subsections of the
\* section just chunked come next, in stored order, before what was waiting
Pending(subsections, waiting) == subsections \o waiting

\* after the last paragraph: final flush, return chunks; the caller
\* (_recursive_chunk_process) extends its list and goes on with the subsections
FinalFlush ==
    /\ pc = "para" /\ i >= Len(section.content)
    /\ ~CallRaises
    /\ chunks' = FlushBuffer(chunks, tokenizer, article_id, section.path,
                             buffer_text, buffer_idx)
    /\ out' = out \o chunks'
    /\ returned' = Append(returned, [section |-> cur, chunks |-> chunks'])
    /\ todo' = Pending(section.subsections, todo)
    /\ pc' = IF todo' = <<>> THEN "done" ELSE "visit"
    /\ UNCHANGED <<inputVars, parseVars, run, first, keys, tokenizer_func, storeVars, shredVars,
                   sectionVars, splitVars>>

\* a tokenizer call raises: the exception leaves _process_section_content (or
\* _split_long_paragraph), _recursive_chunk_process and chunk_article, none of
\* which catches it
TokenizerRaise ==
    /\ CallRaises
    /\ pc' = "raised"
    /\ out' = Unwound(out)
    /\ chunks' = Unwound(chunks)
    /\ UNCHANGED <<inputVars, parseVars, runVars, todo, sectionVars, splitVars>>

\* ------------------------------------------------- the section chunker alone
\* _process_section_content(article_id, section) called on one section
Init ==
    /\ cfg \in Configs
    /\ tokenizer \in Tokenizers
    /\ article_id = <<"d">>
    /\ \E content \in SeqsUpTo(ParaPool, MaxParas) :
          sections = <<Section(<<"a">>, 1, <<<<"a">>>>, content)>>
    /\ cur = 1
    /\ i = 0
    /\ buffer_text = NoneText
    /\ buffer_idx = -1
    /\ chunks = <<>>
    /\ sentences = <<>>
    /\ cursor = 0
    /\ sub_idx = 0
    /\ starts = <<>>
    /\ out = <<>>
    /\ lines = <<>>
    /\ ln = 0
    /\ section_stack = <<>>
    /\ current_section = 1
    /\ current_paragraph_lines = <<>>
    /\ todo = <<>>
    /\ run = 1
    /\ first = <<>>
    /\ keys = <<>>
    /\ returned = <<>>
    /\ NoStorage
    /\ NoShredder
    /\ tokenizer_func = NoneText
    /\ pc = "para"

Next ==
    \/ BufferStart
    \/ BufferMerge
    \/ BufferOverflow
    \/ EmitParagraph
    \/ SplitCall
    \/ SplitWindow
    \/ SplitReturn
    \/ FinalFlush

Spec == Init /\ [][Next]_vars

\* ------------------------------------------------------- construction
\* settings of the four module constants that break MIN < TARGET <= MAX or
\* carry a negative overlap
InvalidConfigs ==
    {[DefaultConfig EXCEPT !.max = 60],
     [DefaultConfig EXCEPT !.min = 300],
     [DefaultConfig EXCEPT !.overlap = -1]}

\* self.tokenizer before __init__ has assigned it
Unset == [base |-> 0, w |-> <<>>, raises |-> {}]

\* __init__(tokenizer_func): keeps the injected tokenizer or the default one;
\* the thresholds are read nowhere in it
Construct ==
    /\ pc = "new"
    /\ tokenizer' = IF tokenizer_func # NoneText THEN tokenizer_func[1]
                     ELSE WhitespaceTokenizer
    /\ pc' = "para"
    /\ UNCHANGED <<cfg, article_id, sections, parseVars, runVars, todo, sectionVars,
                   chunks, splitVars, out>>

\* UniversalChunker(tokenizer_func) under any setting of the thresholds,
\* followed by _process_section_content on one section
InitConstruct ==
    /\ cfg \in {DefaultConfig} \cup InvalidConfigs
    /\ tokenizer_func \in {NoneText, Some(SpecialTokenizer)}
    /\ tokenizer = Unset
    /\ article_id = <<"d">>
    /\ \E content \in SeqsUpTo(ParaPool, MaxParas) :
          sections = <<Section(<<"a">>, 1, <<<<"a">>>>, content)>>
    /\ cur = 1
    /\ i = 0
    /\ buffer_text = NoneText
    /\ buffer_idx = -1
    /\ chunks = <<>>
    /\ sentences = <<>>
    /\ cursor = 0
    /\ sub_idx = 0
    /\ starts = <<>>
    /\ out = <<>>
    /\ lines = <<>>
    /\ ln = 0
    /\ section_stack = <<>>
    /\ current_section = 1
    /\ current_paragraph_lines = <<>>
    /\ todo = <<>>
    /\ run = 1
    /\ first = <<>>
    /\ keys = <<>>
    /\ returned = <<>>
    /\ NoStorage
    /\ NoShredder
    /\ pc = "new"

NextConstruct ==
    \/ Construct
    \/ Next

SpecConstruct == InitConstruct /\ [][NextConstruct]_vars

\* ------------------------------------------------ the sentence split alone
\* _split_long_paragraph(chunks_list, article_id, section, text, 0) called on
\* any paragraph text, after lines 208-215
\* ten sentences of 70 tokens
LongParagraph == [k \in 1..10 |-> LongParagraphSentence]

InitSplit ==
    /\ cfg \in Configs
    /\ tokenizer \in Tokenizers
    /\ article_id = <<"d">>
    /\ \E q \in SeqsUpTo(Sentences, MaxSents) \cup {LongParagraph} :
          /\ sections = <<Section(<<"a">>, 1, <<<<"a">>>>, <<JoinSentences(q)>>)>>
          /\ sentences = SplitSentences(JoinSentences(q))
    /\ cur = 1
    /\ i = 0
    /\ buffer_text = NoneText
    /\ buffer_idx = -1
    /\ chunks = <<>>
    /\ cursor = 0
    /\ sub_idx = SubIdxInit
    /\ starts = <<>>
    /\ out = <<>>
    /\ lines = <<>>
    /\ ln = 0
    /\ section_stack = <<>>
    /\ current_section = 1
    /\ current_paragraph_lines = <<>>
    /\ todo = <<>>
    /\ run = 1
    /\ first = <<>>
    /\ keys = <<>>
    /\ returned = <<>>
    /\ NoStorage
    /\ NoShredder
    /\ tokenizer_func = NoneText
    /\ pc = "split"

NextSplit ==
    \/ SplitWindow
    \/ SplitReturn

SpecSplit == InitSplit /\ [][NextSplit]_vars

TypeOK ==
    /\ pc \in {"new", "idle", "parse", "visit", "para", "split", "done", "raised", "emit", "emitted",
                "ready", "infoboxes", "tables", "images", "convert"}
    /\ i \in 0..MaxParas
    /\ cursor \in 0..Len(sentences)
    /\ buffer_idx \in -1..MaxParas

\* --------------------------------------------------------- StructureParser
\* the lines of a document after `line.strip()` and the header match:
\* a blank line, a header (len(group(1)), group(2).strip()) or a text line
BlankLine == [kind |-> "blank", level |-> 0, title |-> <<>>, text |-> <<>>]
HeaderLine(level, title) == [kind |-> "header", level |-> level, title |-> title, text |-> <<>>]
TextLine(text) == [kind |-> "text", level |-> 0, title |-> <<>>, text |-> text]

Titles == {<<"a">>, <<"Root">>}
Levels == 1..2
DocSentences == {"s"}
DocLines ==
    {BlankLine}
        \cup {HeaderLine(l, t) : l \in Levels, t \in Titles}
        \cup {TextLine(<<x, SP>>) : x \in DocSentences}

\* root = Section(title="Root", level=0, path=["Root"])
RootSection == Section(<<"Root">>, 0, <<<<"Root">>>>, <<>>)

\* a root whose content list is the one the previous root had
SharedContentRoot(prev) == <<[RootSection EXCEPT !.content = prev[1].content]>>

\* the tree at the start of a call of _parse_markdown_structure, whatever an
\* earlier call built: a new root with its own empty content and subsections
FreshRoot(prev) == <<RootSection>>

RECURSIVE Strip(_)
\* str.strip()
Strip(t) ==
    IF t = <<>> THEN t
    ELSE IF Head(t) \in {SP, PB} THEN Strip(Tail(t))
    ELSE IF t[Len(t)] \in {SP, PB} THEN Strip(SubSeq(t, 1, Len(t) - 1))
    ELSE t

\* a flush that joins the pending lines with a paragraph break
FlushParagraphBroken(secs, cs, pending) ==
    IF pending # <<>>
    THEN LET p_text == Strip(Join(<<PB>>, pending))
         IN IF p_text # <<>>
            THEN [secs EXCEPT ![cs].content = Append(@, p_text)]
            ELSE secs
    ELSE secs

\* flush_paragraph: the sections after the pending lines went to section cs
FlushParagraph(secs, cs, pending) ==
    IF pending # <<>>
    THEN LET p_text == Strip(Join(<<SP>>, pending))
         IN IF p_text # <<>>
            THEN [secs EXCEPT ![cs].content = Append(@, p_text)]
            ELSE secs
    ELSE secs

RECURSIVE PopStackStrict(_, _, _)
RECURSIVE PopStack(_, _, _)
\* a loop that pops only the sections deeper than the new header
PopStackStrict(stack, secs, level) ==
    IF Len(stack) > 1 /\ secs[stack[Len(stack)]].level > level
    THEN PopStackStrict(SubSeq(stack, 1, Len(stack) - 1), secs, level)
    ELSE stack

\* while len(section_stack) > 1 and section_stack[-1].level >= level: pop
PopStack(stack, secs, level) ==
    IF Len(stack) > 1 /\ secs[stack[Len(stack)]].level >= level
    THEN PopStack(SubSeq(stack, 1, Len(stack) - 1), secs, level)
    ELSE stack

\* base_path: the parent's path, emptied when it is ["Root"]
BasePath(parent_path) ==
    IF Len(parent_path) = 1 /\ parent_path[1] = <<"Root">> THEN <<>> ELSE parent_path

\* path = base_path + [title]
SectionPath(parent_path, title) == BasePath(parent_path) \o <<title>>

line == lines[ln + 1]

\* a blank line: flush the pending paragraph
ParseBlank ==
    /\ pc = "parse" /\ ln < Len(lines)
    /\ line.kind = "blank"
    /\ sections' = FlushParagraph(sections, current_section, current_paragraph_lines)
    /\ current_paragraph_lines' = <<>>
    /\ ln' = ln + 1
    /\ UNCHANGED <<cfg, tokenizer, article_id, lines, section_stack, current_section,
                   sectionVars, chunks, splitVars, out, todo, runVars, pc>>

\* a header: flush, pop to the parent, create and attach the section, push it
ParseHeader ==
    /\ pc = "parse" /\ ln < Len(lines)
    /\ line.kind = "header"
    /\ LET flushed == FlushParagraph(sections, current_section, current_paragraph_lines)
           popped == PopStack(section_stack, flushed, line.level)
           parent == popped[Len(popped)]
           path == SectionPath(flushed[parent].path, line.title)
           new_section == Section(line.title, line.level, path, <<>>)
           new_index == Len(flushed) + 1
       IN /\ sections' = Append([flushed EXCEPT ![parent].subsections = Append(@, new_index)],
                                new_section)
          /\ current_section' = new_index
          /\ section_stack' = Append(popped, new_index)
    /\ current_paragraph_lines' = <<>>
    /\ ln' = ln + 1
    /\ UNCHANGED <<cfg, tokenizer, article_id, lines, sectionVars, chunks, splitVars,
                   out, todo, runVars, pc>>

\* any other line: accumulate
ParseText ==
    /\ pc = "parse" /\ ln < Len(lines)
    /\ line.kind = "text"
    /\ current_paragraph_lines' = Append(current_paragraph_lines, Strip(line.text))
    /\ ln' = ln + 1
    /\ UNCHANGED <<inputVars, lines, section_stack, current_section, sectionVars,
                   chunks, splitVars, out, todo, runVars, pc>>

\* end of input: final flush, return root; chunk_article goes on with
\* _recursive_chunk_process(article_id, root_section)
ParseEnd ==
    /\ pc = "parse" /\ ln >= Len(lines)
    /\ sections' = FlushParagraph(sections, current_section, current_paragraph_lines)
    /\ current_paragraph_lines' = <<>>
    /\ todo' = <<1>>
    /\ pc' = "visit"
    /\ UNCHANGED <<cfg, tokenizer, article_id, lines, ln, section_stack, current_section,
                   sectionVars, chunks, splitVars, out, runVars>>

\* ------------------------------------------------------ ChunkingOrchestrator
\* _recursive_chunk_process reaches the next section and calls
\* _process_section_content on it (lines 142-147)
Visit ==
    /\ pc = "visit" /\ todo # <<>>
    /\ cur' = Head(todo)
    /\ todo' = Tail(todo)
    /\ chunks' = <<>>
    /\ buffer_text' = NoneText
    /\ buffer_idx' = -1
    /\ i' = 0
    /\ pc' = "para"
    /\ UNCHANGED <<inputVars, parseVars, splitVars, out, runVars>>

\* chunk_article is called a second time with the same article_id and text
Rerun ==
    /\ pc = "done" /\ run = 1
    /\ first' = out
    /\ run' = 2
    /\ out' = <<>>
    /\ returned' = <<>>
    /\ sections' = FreshRoot(sections)
    /\ section_stack' = <<1>>
    /\ current_section' = 1
    /\ current_paragraph_lines' = <<>>
    /\ ln' = 0
    /\ pc' = "parse"
    /\ UNCHANGED <<cfg, tokenizer, tokenizer_func, article_id, lines, sectionVars, chunks,
                   splitVars, todo, keys, storeVars, shredVars>>

\* ------------------------------------------------------ a whole document
DocTokenizers == {WhitespaceTokenizer, SpecialTokenizer}

\* tokenizers that reject some inputs: one raises on a text of two sentences
\* (a two-line paragraph or a merge candidate), one on a single sentence
PairRaisingTokenizer ==
    [WhitespaceTokenizer EXCEPT !.raises = {<<"s", SP, "s">>, <<"s", PB, "s">>}]
SentenceRaisingTokenizer ==
    [WhitespaceTokenizer EXCEPT !.raises = {<<"s">>}]
RaisingTokenizers == {PairRaisingTokenizer, SentenceRaisingTokenizer}

\* a second valid setting of the thresholds, under which two small paragraphs
\* no longer fit one merged chunk
TightConfig == [min |-> 80, target |-> 100, max |-> 150, overlap |-> 1]
DocConfigs == {DefaultConfig, TightConfig}

\* chunk_article(article_id, markdown_content) at the start of the parse
InitDoc ==
    /\ \/ cfg \in DocConfigs /\ tokenizer \in DocTokenizers
       \/ cfg = DefaultConfig /\ tokenizer \in RaisingTokenizers
    /\ article_id = <<"d">>
    /\ lines \in SeqsUpTo(DocLines, MaxLines)
    /\ sections = <<RootSection>>
    /\ section_stack = <<1>>
    /\ current_section = 1
    /\ current_paragraph_lines = <<>>
    /\ ln = 0
    /\ todo = <<>>
    /\ cur = 1
    /\ i = 0
    /\ buffer_text = NoneText
    /\ buffer_idx = -1
    /\ chunks = <<>>
    /\ sentences = <<>>
    /\ cursor = 0
    /\ sub_idx = 0
    /\ starts = <<>>
    /\ out = <<>>
    /\ run = 1
    /\ first = <<>>
    /\ keys = <<>>
    /\ returned = <<>>
    /\ NoStorage
    /\ NoShredder
    /\ tokenizer_func = NoneText
    /\ pc = "parse"

NextDoc ==
    \/ ParseBlank
    \/ ParseHeader
    \/ ParseText
    \/ ParseEnd
    \/ Visit
    \/ BufferStart
    \/ BufferMerge
    \/ BufferOverflow
    \/ EmitParagraph
    \/ SplitCall
    \/ SplitWindow
    \/ SplitReturn
    \/ FinalFlush
    \/ TokenizerRaise
    \/ Rerun

SpecDoc == InitDoc /\ [][NextDoc]_vars

\* ------------------------------------------------------------ WikiStorage
\* (src/src/database.py)  Rows keep the columns that identify them and the
\* ones the chunker fills; title, abstract, toc and the article embedding are
\* carried from processed_data to the row untouched and are left out.
MaxAdds == 3         \* add_article calls on one WikiStorage

RECURSIVE InsertOrReplace(_, _, _)
\* an insert that overwrites the stored row of the same key
InsertOrReplace(table, rows, key) ==
    IF rows = <<>> THEN table
    ELSE LET row == Head(rows)
             hit == {k \in 1..Len(table) : table[k][key] = row[key]}
         IN InsertOrReplace(IF hit = {} THEN Append(table, row)
                            ELSE [k \in 1..Len(table) |->
                                    IF k \in hit THEN row ELSE table[k]],
                            Tail(rows), key)

RECURSIVE InsertAbsent(_, _, _)
\* for row in buffer: INSERT ... ON CONFLICT (key) DO NOTHING
InsertAbsent(table, rows, key) ==
    IF rows = <<>> THEN table
    ELSE LET row == Head(rows)
         IN InsertAbsent(IF \E k \in 1..Len(table) : table[k][key] = row[key]
                         THEN table ELSE Append(table, row),
                         Tail(rows), key)

\* the tuple appended to _article_buffer
ArticleRow(zim_path, processed_data) ==
    [zim_path |-> zim_path, markdown_content |-> processed_data.content]

\* the tuples appended to _asset_buffer, one per asset of the sidecar
AssetRows(zim_path, processed_data) ==
    [k \in 1..Len(processed_data.sidecar) |->
        [asset_id |-> processed_data.sidecar[k], article_zim_path |-> zim_path]]

\* self.model.encode(text) when the model is loaded, else None: a vector that
\* is a function of the text
Embedding(text) == IF installed THEN Some(text) ELSE NoneText

\* the tuples appended to _chunk_buffer, one per chunk (no subchunk_index column)
ChunkRows(zim_path, chunk_list) ==
    [k \in 1..Len(chunk_list) |->
        [chunk_id |-> chunk_list[k].chunk_id,
         article_zim_path |-> zim_path,
         text |-> chunk_list[k].text,
         token_count |-> chunk_list[k].token_count,
         chunk_type |-> chunk_list[k].chunk_type,
         section_path |-> chunk_list[k].section_path,
         paragraph_index |-> chunk_list[k].paragraph_index,
         embedding |-> Embedding(chunk_list[k].text)]]

\* _flush on the given buffers: without psycopg the buffers are dropped, with
\* it their rows are inserted, articles first; the buffers are emptied
Flush(articles, assets, chunk_rows) ==
    /\ db_articles' = IF installed THEN InsertAbsent(db_articles, articles, "zim_path")
                       ELSE db_articles
    /\ db_assets' = IF installed THEN InsertAbsent(db_assets, assets, "asset_id")
                     ELSE db_assets
    /\ db_chunks' = IF installed THEN InsertAbsent(db_chunks, chunk_rows, "chunk_id")
                     ELSE db_chunks
    /\ article_buffer' = <<>>
    /\ asset_buffer' = <<>>
    /\ chunk_buffer' = <<>>

\* the documents and sidecars handed to add_article
StoreContents ==
    {<<TextLine(<<"s">>), BlankLine, TextLine(<<"s">>)>>,
     <<TextLine(<<"s">>), TextLine(<<"s">>)>>,
     <<HeaderLine(1, <<"a">>), TextLine(<<"s">>),
       HeaderLine(1, <<"a">>), TextLine(<<"s">>), TextLine(<<"s">>)>>}
ProcessedData ==
    {[content |-> c,
      sidecar |-> IF Len(c) = 2 THEN <<>> ELSE IF Len(c) = 3 THEN <<"u", "v">> ELSE <<"u">>] :
        c \in StoreContents}
ZimPaths == {<<"d">>, <<"e">>}

\* add_article up to the call of the chunker (lines 115-154): the article and
\* its assets are buffered, then chunk_article(zim_path, content) starts
AddArticle ==
    /\ pc = "idle" /\ Len(added) < MaxAdds
    /\ \E zim_path \in ZimPaths, processed_data \in ProcessedData :
          /\ article_buffer' = Append(article_buffer, ArticleRow(zim_path, processed_data))
          /\ asset_buffer' = asset_buffer \o AssetRows(zim_path, processed_data)
          /\ added' = Append(added, [zim_path |-> zim_path, processed_data |-> processed_data])
          /\ at_call' = bufferVars
          /\ article_id' = zim_path
          /\ lines' = processed_data.content
    /\ sections' = FreshRoot(sections)
    /\ section_stack' = <<1>>
    /\ current_section' = 1
    /\ current_paragraph_lines' = <<>>
    /\ ln' = 0
    /\ out' = <<>>
    /\ returned' = <<>>
    /\ pc' = "parse"
    /\ UNCHANGED <<cfg, tokenizer, tokenizer_func, installed, batch_size, chunk_buffer,
                   tableVars, sectionVars, chunks, splitVars, todo, run, first, keys, shredVars>>

\* add_article after the chunker returned (lines 156-177): the chunk rows are
\* buffered and, once batch_size articles are buffered, everything is flushed
AddArticleReturn ==
    /\ pc = "done"
    /\ LET rows == chunk_buffer \o ChunkRows(article_id, out)
       IN IF Len(article_buffer) >= batch_size
          THEN Flush(article_buffer, asset_buffer, rows)
          ELSE /\ chunk_buffer' = rows
               /\ UNCHANGED <<article_buffer, asset_buffer, tableVars>>
    /\ pc' = "idle"
    /\ UNCHANGED <<inputVars, tokenizer_func, installed, batch_size, added, at_call, parseVars,
                   sectionVars, chunks, splitVars, out, todo, run, first, keys, returned, shredVars>>

\* the exception of the chunker leaves add_article at line 154: nothing of
\* lines 156-177 runs, the caller has the storage as the call left it
AddArticleRaised ==
    /\ pc = "raised"
    /\ pc' = "idle"
    /\ UNCHANGED <<inputVars, parseVars, runVars, todo, sectionVars, chunks, splitVars, out>>

\* close(): flush what is buffered, if an article is
Close ==
    /\ pc = "idle"
    /\ article_buffer # <<>>
    /\ Flush(article_buffer, asset_buffer, chunk_buffer)
    /\ UNCHANGED <<inputVars, tokenizer_func, installed, batch_size, added, at_call, parseVars,
                   sectionVars, chunks, splitVars, out, todo, run, first, keys, returned,
                   shredVars, pc>>

\* a tokenizer of the embedding model whose encode fails on the text of a
\* paragraph of two sentences
FailingSpecialTokenizer == [SpecialTokenizer EXCEPT !.raises = {<<"s", SP, "s">>}]

\* WikiStorage(db_conn_string, batch_size=...) after __init__: the chunker uses
\* the tokenizer of the embedding model when it could be imported
InitStore ==
    /\ installed \in BOOLEAN
    /\ batch_size \in 1..2
    /\ tokenizer \in (IF installed THEN {SpecialTokenizer, FailingSpecialTokenizer}
                                  ELSE {WhitespaceTokenizer})
    /\ tokenizer_func = IF installed THEN Some(tokenizer) ELSE NoneText
    /\ cfg \in DocConfigs
    /\ article_buffer = <<>>
    /\ asset_buffer = <<>>
    /\ chunk_buffer = <<>>
    /\ db_articles = <<>>
    /\ db_assets = <<>>
    /\ db_chunks = <<>>
    /\ added = <<>>
    /\ at_call = <<<<>>, <<>>, <<>>>>
    /\ NoShredder
    /\ article_id = <<>>
    /\ lines = <<>>
    /\ sections = <<RootSection>>
    /\ section_stack = <<1>>
    /\ current_section = 1
    /\ current_paragraph_lines = <<>>
    /\ ln = 0
    /\ todo = <<>>
    /\ cur = 1
    /\ i = 0
    /\ buffer_text = NoneText
    /\ buffer_idx = -1
    /\ chunks = <<>>
    /\ sentences = <<>>
    /\ cursor = 0
    /\ sub_idx = 0
    /\ starts = <<>>
    /\ out = <<>>
    /\ run = 1
    /\ first = <<>>
    /\ keys = <<>>
    /\ returned = <<>>
    /\ pc = "idle"

NextStore ==
    \/ AddArticle
    \/ ParseBlank
    \/ ParseHeader
    \/ ParseText
    \/ ParseEnd
    \/ Visit
    \/ BufferStart
    \/ BufferMerge
    \/ BufferOverflow
    \/ EmitParagraph
    \/ SplitCall
    \/ SplitWindow
    \/ SplitReturn
    \/ FinalFlush
    \/ TokenizerRaise
    \/ AddArticleReturn
    \/ AddArticleRaised
    \/ Close

SpecStore == InitStore /\ [][NextStore]_vars

\* ------------------------------------------------- chunk identity alone
\* titles and document ids may hold the separators of the canonical string
IdTitles == {<<"a">>, <<"b">>, <<"a", "/", "b">>, <<"a", "|">>}
IdArticles == {<<"d">>, <<"d", "|", "a">>}
IdIndexes == {0, 1, 10}
IdSubIndexes == {None, 0, 1}
KeyTuples ==
    [article_id : IdArticles, section_path : SeqsUpTo(IdTitles, MaxPathLen),
     paragraph_index : IdIndexes, subchunk_index : IdSubIndexes]

\* _emit_chunk about to be called twice on an empty list
InitId ==
    /\ cfg = DefaultConfig
    /\ tokenizer = WhitespaceTokenizer
    /\ keys \in KeyTuples \X KeyTuples
    /\ returned = <<>>
    /\ NoStorage
    /\ NoShredder
    /\ tokenizer_func = NoneText
    /\ article_id = keys[1].article_id
    /\ sections = <<RootSection>>
    /\ section_stack = <<>>
    /\ current_section = 1
    /\ current_paragraph_lines = <<>>
    /\ lines = <<>>
    /\ ln = 0
    /\ todo = <<>>
    /\ cur = 1
    /\ i = 0
    /\ buffer_text = NoneText
    /\ buffer_idx = -1
    /\ chunks = <<>>
    /\ sentences = <<>>
    /\ cursor = 0
    /\ sub_idx = 0
    /\ starts = <<>>
    /\ out = <<>>
    /\ run = 1
    /\ first = <<>>
    /\ pc = "emit"

\* the two calls of _emit_chunk
EmitPair ==
    /\ pc = "emit"
    /\ LET k1 == keys[1]
           k2 == keys[2]
           type(k) == IF k.subchunk_index = None THEN "paragraph" ELSE "split"
           one == EmitChunk(chunks, k1.article_id, k1.section_path, <<"s">>, 77,
                            type(k1), k1.paragraph_index, k1.subchunk_index)
       IN chunks' = EmitChunk(one, k2.article_id, k2.section_path, <<"s">>, 77,
                              type(k2), k2.paragraph_index, k2.subchunk_index)
    /\ pc' = "emitted"
    /\ UNCHANGED <<inputVars, parseVars, runVars, todo, sectionVars, splitVars, out>>

NextId == EmitPair

SpecId == InitId /\ [][NextId]_vars

\* ------------------------------------------------------------ properties
ChunkIndexes == 1..Len(chunks)

\* sentences of the k-th emitted window
WindowSents(k) == SplitSentences(chunks[k].text)

\* number of sentence positions window k (k > 1) has in common with window k-1
Shared(k) == starts[k - 1] + Len(WindowSents(k - 1)) - starts[k]

\* C1: with MIN < TARGET <= MAX every chunk of type "merged", however it was
\* flushed, has token_count <= MAX_TOKENS.
NoOversizedMerges ==
    ValidConfig(cfg) =>
        \A k \in ChunkIndexes :
            chunks[k].chunk_type = "merged" => chunks[k].token_count <= cfg.max

\* the section is done and a buffer was flushed because the next small
\* paragraph no longer fitted (two merged chunks in a row), the first of them
\* made of several paragraphs
MergeOverflowFlushed ==
    /\ pc = "done"
    /\ \E k \in ChunkIndexes :
          /\ k + 1 \in ChunkIndexes
          /\ chunks[k].chunk_type = "merged"
          /\ chunks[k + 1].chunk_type = "merged"
          /\ chunks[k + 1].paragraph_index > chunks[k].paragraph_index + 1
          /\ chunks[k].token_count > cfg.max - cfg.min

\* C2: once the split of a paragraph has returned, the windows in emission
\* order, each after the first without the sentences it repeats from the
\* window before it, give back the sentence sequence.
RECURSIVE Rebuild(_)
Rebuild(k) ==
    IF k = 0 THEN <<>>
    ELSE LET w == WindowSents(k)
             drop == IF k = 1 THEN 0 ELSE Max(0, Shared(k))
         IN Rebuild(k - 1) \o SubSeq(w, drop + 1, Len(w))

SplitCompleteness ==
    pc # "split" => Rebuild(Len(chunks)) = sentences

\* a split that returned after at least two windows, one of which repeats
\* sentences of its predecessor
SplitWithRepeats ==
    /\ pc # "split"
    /\ Len(chunks) >= 2
    /\ \E k \in 2..Len(chunks) : Shared(k) >= 1

\* C3: two consecutive windows of a paragraph share at most SENTENCE_OVERLAP
\* sentences, and every window starts before the end of the sentence sequence.
OverlapBound ==
    /\ Len(starts) = Len(chunks)
    /\ \A k \in 1..Len(starts) :
          /\ starts[k] < Len(sentences)
          /\ k > 1 => Shared(k) <= cfg.overlap

\* the cursor is at the end after a window that shares exactly the configured
\* (positive) number of sentences with its predecessor
FullOverlapUsed ==
    /\ pc = "split"
    /\ cursor = Len(sentences)
    /\ cfg.overlap >= 1
    /\ \E k \in 2..Len(starts) : Shared(k) = cfg.overlap

\* C4: each window starts strictly after the start of the previous one, and
\* the cursor is always past the start of the last window.
WindowStartsIncrease ==
    /\ \A k \in 2..Len(starts) : starts[k] > starts[k - 1]
    /\ starts # <<>> => cursor > starts[Len(starts)]

\* a split with a positive overlap setting in which a window of one sentence
\* (a sentence of at least TARGET tokens) was followed by a further window,
\* over a paragraph that has a sentence of 0 tokens
SingleSentenceWindowPassed ==
    /\ pc # "split"
    /\ cfg.overlap >= 1
    /\ \E k \in 1..(Len(starts) - 1) : Len(WindowSents(k)) = 1
    /\ \E j \in 1..Len(sentences) : Tok(tokenizer, <<sentences[j]>>) = 0

\* C8: paragraph_index never decreases along the chunks of a section.
ParagraphIndexMonotone ==
    \A k \in ChunkIndexes :
        k + 1 \in ChunkIndexes =>
            chunks[k].paragraph_index <= chunks[k + 1].paragraph_index

\* a merged chunk of several paragraphs, flushed late, is followed by the
\* chunk of a later paragraph, and the section also has a split paragraph
LateFlushBeforeParagraph ==
    /\ pc = "done"
    /\ \E k \in ChunkIndexes :
          /\ k + 1 \in ChunkIndexes
          /\ chunks[k].chunk_type = "merged"
          /\ chunks[k + 1].chunk_type = "paragraph"
          /\ chunks[k + 1].paragraph_index > chunks[k].paragraph_index + 1
    /\ \E k \in ChunkIndexes : chunks[k].chunk_type = "split"

\* C9: the token_count of every chunk is the tokenizer applied to its text.
TokenCountMatchesText ==
    \A k \in ChunkIndexes : chunks[k].token_count = Tok(tokenizer, chunks[k].text)

\* C10: subchunk_index is present exactly on split chunks, and the windows of
\* one split paragraph are numbered 0, 1, 2, ... in emission order.
SubchunkIndexShape ==
    \A k \in ChunkIndexes :
        /\ (chunks[k].chunk_type = "split") <=> (chunks[k].subchunk_index # None)
        /\ chunks[k].chunk_type = "split" =>
              IF /\ k > 1
                 /\ chunks[k - 1].chunk_type = "split"
                 /\ chunks[k - 1].paragraph_index = chunks[k].paragraph_index
              THEN chunks[k].subchunk_index = chunks[k - 1].subchunk_index + 1
              ELSE chunks[k].subchunk_index = 0

\* a section with a merged chunk, a paragraph chunk and a paragraph split into
\* two windows
AllChunkTypesEmitted ==
    /\ pc = "done"
    /\ \E k \in ChunkIndexes : chunks[k].chunk_type = "merged"
    /\ \E k \in ChunkIndexes : chunks[k].chunk_type = "paragraph"
    /\ \E k \in ChunkIndexes : chunks[k].chunk_type = "split" /\ chunks[k].subchunk_index = 1

\* C5: the section_path of every chunk is the path of exactly one section of
\* the parsed tree, no two sections of a tree having the same path.
ChunkPathNamesOneSection ==
    /\ \A a, b \in 1..Len(sections) : a # b => sections[a].path # sections[b].path
    /\ \A k \in 1..Len(out) :
          Cardinality({a \in 1..Len(sections) : sections[a].path = out[k].section_path}) = 1

\* C5 as amended: the section_path of every chunk is the path of the section
\* whose content produced it, hence of at least one section of the tree.
ChunkPathIsProducerPath ==
    /\ pc \in {"para", "split"} =>
          \A k \in ChunkIndexes : chunks[k].section_path = sections[cur].path
    /\ \A k \in 1..Len(out) :
          \E a \in 1..Len(sections) : sections[a].path = out[k].section_path

\* a document is chunked whose tree has two sections with one path, and a
\* chunk carries that path
ChunkOfAmbiguousPath ==
    /\ pc = "done"
    /\ \E a, b \in 1..Len(sections) :
          /\ a # b
          /\ sections[a].path = sections[b].path
          /\ \E k \in 1..Len(out) : out[k].section_path = sections[a].path

KeyOf(c) == <<c.article_id, c.section_path, c.paragraph_index, c.subchunk_index>>

\* C6: two tuples (document_id, section_path, paragraph_index, subchunk_index)
\* that differ in a component give different canonical strings, hence
\* different chunk_ids.
IdentityInjective ==
    pc = "emitted" =>
        (KeyOf(chunks[1]) # KeyOf(chunks[2]) => chunks[1].chunk_id # chunks[2].chunk_id)

\* C7: a second call of chunk_article with the same document id and text
\* returns the chunk sequence of the first, and every chunk_id is the identity
\* of the chunk's (article_id, section_path, paragraph_index, subchunk_index).
Determinism ==
    /\ run = 2 /\ pc = "done" => out = first
    /\ \A k \in 1..Len(out) :
          out[k].chunk_id = ChunkId(out[k].article_id, out[k].section_path,
                                    out[k].paragraph_index, out[k].subchunk_index)

\* the second call has returned chunks of the root and of another section
SecondRunReturned ==
    /\ run = 2 /\ pc = "done"
    /\ \E k \in 1..Len(out) : out[k].section_path = RootSection.path
    /\ \E k \in 1..Len(out) : out[k].section_path # RootSection.path

\* the lines of the document hold no header
NoHeaderLine == \A k \in 1..Len(lines) : lines[k].kind # "header"

\* C11: a document without any header line parses to a root that has no
\* subsections and holds every paragraph, and every chunk of the document
\* carries an empty section_path
HeaderlessChunksHaveEmptyPath ==
    (pc = "done" /\ NoHeaderLine) =>
        /\ Len(sections) = 1
        /\ sections[1].subsections = <<>>
        /\ \A k \in 1..Len(out) : out[k].section_path = <<>>

\* the section whose subsections list holds section a
ParentOf(a) ==
    CHOOSE p \in 1..Len(sections) :
        \E k \in 1..Len(sections[p].subsections) : sections[p].subsections[k] = a

\* C12: the path of every non-root section is the path of its parent followed
\* by its own title, the synthetic root contributing nothing, whatever the
\* titles are (a header titled 'Root' included)
PathIsParentPathPlusTitle ==
    \A a \in 2..Len(sections) :
        LET p == ParentOf(a)
            parent_path == IF p = 1 THEN <<>> ELSE sections[p].path
        IN sections[a].path = parent_path \o <<sections[a].title>>

RECURSIVE PreOrder(_), PreOrderAll(_)
\* a section, then each of its subsections with all below it, in stored order
PreOrder(a) == <<a>> \o PreOrderAll(sections[a].subsections)
PreOrderAll(kids) ==
    IF kids = <<>> THEN <<>> ELSE PreOrder(Head(kids)) \o PreOrderAll(Tail(kids))

RECURSIVE ChunksOf(_)
\* the chunk lists of a sequence of section results, one after the other
ChunksOf(results) ==
    IF results = <<>> THEN <<>> ELSE Head(results).chunks \o ChunksOf(Tail(results))

\* chunk c is a merged chunk made of paragraphs of this content only: a run of
\* consecutive paragraphs that starts at its paragraph_index
MergedWithin(c, content) ==
    \E n \in 1..Len(content) :
        /\ c.paragraph_index + n <= Len(content)
        /\ c.text = Join(<<PB>>, SubSeq(content, c.paragraph_index + 1, c.paragraph_index + n))

\* C13: the chunks of a document are the outputs of its sections concatenated in
\* pre-order (a section before its subsections, subsections in stored order),
\* each chunk carries the path of the section that produced it, and no merged
\* chunk holds text of two sections: the merge buffer does not cross sections
PreOrderConcatenation ==
    pc = "done" =>
        /\ [k \in 1..Len(returned) |-> returned[k].section] = PreOrder(1)
        /\ out = ChunksOf(returned)
        /\ \A k \in 1..Len(returned) :
              \A j \in 1..Len(returned[k].chunks) :
                  LET c == returned[k].chunks[j]
                      s == sections[returned[k].section]
                  IN /\ c.section_path = s.path
                     /\ c.chunk_type = "merged" => MergedWithin(c, s.content)

\* the tree has a section nested in a non-root section, and two sections that
\* follow each other in the output ended and began with small paragraphs that
\* would have fitted one merged chunk
TwoMergedAcrossSections ==
    /\ pc = "done"
    /\ \E a \in 2..Len(sections) : sections[a].subsections # <<>>
    /\ \E k, m \in 1..Len(returned) :
          LET a == returned[k].chunks
              b == returned[m].chunks
          IN /\ k < m
             /\ \A x \in (k + 1)..(m - 1) : returned[x].chunks = <<>>
             /\ a # <<>> /\ b # <<>>
             /\ a[Len(a)].chunk_type = "merged" /\ b[1].chunk_type = "merged"
             /\ Tok(tokenizer, MergedCandidate(a[Len(a)].text, b[1].text)) <= cfg.max

\* C15: when a tokenizer call raises, on a paragraph, a merge candidate or a
\* sentence, in any section and also after chunks were built, the call of
\* chunk_article ends with that exception and hands no chunk to its caller;
\* a call that returns chunks made no tokenizer call that raised
TokenizerFailureAtomic ==
    /\ pc = "raised" => out = <<>>
    /\ pc = "done" =>
          /\ \A a \in 1..Len(sections) :
                \A k \in 1..Len(sections[a].content) :
                    ~Raises(tokenizer, sections[a].content[k])
          /\ \A k \in 1..Len(out) :
                \A j \in 1..Len(out[k].text) :
                    out[k].chunk_type = "split" /\ out[k].text[j] # SP
                        => ~Raises(tokenizer, <<out[k].text[j]>>)

\* a tokenizer call raised in a later section, after an earlier section had
\* returned its chunks
RaisedAfterChunksBuilt ==
    /\ pc = "raised"
    /\ ChunksOf(returned) # <<>>
    /\ cur > 1

\* a tokenizer call raised on a sentence inside _split_long_paragraph
RaisedOnSentence ==
    /\ pc = "raised"
    /\ sentences # <<>>
    /\ ~Raises(tokenizer, paragraph_text)

\* paragraph j (0-based) of the section being chunked is handed to
\* _split_long_paragraph and holds no sentence: it is whitespace throughout
ZeroSentenceParagraph(j) ==
    LET p == section.content[j + 1]
    IN /\ Tok(tokenizer, p) > cfg.max
       /\ \A k \in 1..Len(p) : p[k] \in {SP, PB, BLANKS}

\* some chunk built so far carries paragraph index j
HasChunkAt(j) == \E k \in ChunkIndexes : chunks[k].paragraph_index = j

\* C16: a section with no paragraphs yields no chunk, a paragraph that segments
\* into zero sentences yields no chunk and no error, and the paragraphs of at
\* least MIN tokens around it still get their chunks
DegenerateYieldsNothing ==
    /\ pc # "raised"
    /\ \A k \in 1..Len(returned) :
          sections[returned[k].section].content = <<>> => returned[k].chunks = <<>>
    /\ pc \in {"para", "split", "done"} =>
          \A j \in 0..(i - 1) :
              IF ZeroSentenceParagraph(j)
              THEN ~HasChunkAt(j)
              ELSE ~IsSmall(Tok(tokenizer, section.content[j + 1]), cfg) => HasChunkAt(j)

\* a paragraph of zero sentences was passed between two paragraphs that got
\* their chunks
ZeroSentencesBetweenChunks ==
    /\ pc = "done"
    /\ \E j \in 1..(Len(section.content) - 2) :
          /\ ZeroSentenceParagraph(j)
          /\ HasChunkAt(j - 1) /\ HasChunkAt(j + 1)

\* an empty document, and a document whose sections hold no paragraph, yield
\* no chunk; a section without paragraphs adds nothing to the chunks of the others
EmptyDocumentYieldsNothing ==
    pc = "done" =>
        /\ lines = <<>> => out = <<>>
        /\ (\A a \in 1..Len(sections) : sections[a].content = <<>>) => out = <<>>
        /\ \A k \in 1..Len(returned) :
              sections[returned[k].section].content = <<>> => returned[k].chunks = <<>>

\* C14: a chunker whose thresholds violate MIN < TARGET <= MAX or whose overlap
\* is negative is never constructed: no chunking runs under such a setting
ConstructionRejectsInvalidConfig ==
    pc # "new" => ValidConfig(cfg)

\* the chunks built so far that carry paragraph index j
ChunksAt(j) == {k \in ChunkIndexes : chunks[k].paragraph_index = j}

\* C18: a paragraph of MIN..MAX tokens is emitted as exactly one chunk, of type
\* 'paragraph', with the paragraph text verbatim and its token count; a
\* paragraph above MAX gives only 'split' chunks; every chunk that is not a
\* 'split' chunk has at most MAX tokens
SizeClassification ==
    pc \in {"para", "split", "done"} =>
        /\ \A j \in 0..(i - 1) :
              LET p == section.content[j + 1]
                  t == Tok(tokenizer, p)
              IN /\ (cfg.min <= t /\ t <= cfg.max) =>
                        /\ Cardinality(ChunksAt(j)) = 1
                        /\ \A k \in ChunksAt(j) :
                              /\ chunks[k].chunk_type = "paragraph"
                              /\ chunks[k].text = p
                              /\ chunks[k].token_count = t
                 /\ t > cfg.max => \A k \in ChunksAt(j) : chunks[k].chunk_type = "split"
        /\ \A k \in ChunkIndexes :
              chunks[k].chunk_type # "split" => chunks[k].token_count <= cfg.max

\* a section gave a 'paragraph' chunk and, for a paragraph above MAX, at least
\* two 'split' chunks
BothSizeClassesEmitted ==
    /\ pc = "done"
    /\ \E k \in ChunkIndexes : chunks[k].chunk_type = "paragraph"
    /\ \E j \in 0..(i - 1) :
          /\ Tok(tokenizer, section.content[j + 1]) > cfg.max
          /\ Cardinality(ChunksAt(j)) >= 2

\* the number of paragraphs joined in a merged text
RunLen(text) == 1 + Len(SelectSeq(text, LAMBDA x : x = PB))

\* the 1-based positions of the paragraphs of merged chunk c
RunOf(c) == (c.paragraph_index + 1)..(c.paragraph_index + RunLen(c.text))

\* merged chunk c is the paragraphs of its run joined by the blank-line separator
IsJoinedRun(c) ==
    /\ c.paragraph_index + RunLen(c.text) <= Len(section.content)
    /\ c.text = Join(<<PB>>, SubSeq(section.content, c.paragraph_index + 1,
                                    c.paragraph_index + RunLen(c.text)))

\* C19: a paragraph of at least MIN tokens is never folded into the merge
\* buffer: the buffer is flushed as a merged chunk before the chunks of that
\* paragraph, it is empty right after the paragraph is processed, and every
\* merged chunk is made of paragraphs of fewer than MIN tokens only
LargeParagraphNeverBuffered ==
    /\ (pc = "para" /\ i > 0 /\ Tok(tokenizer, section.content[i]) >= cfg.min)
          => buffer_text = NoneText
    /\ pc = "split" => buffer_text = NoneText
    /\ pc \in {"para", "split", "done"} =>
          \A k \in ChunkIndexes :
              LET c == chunks[k]
                  j == c.paragraph_index
              IN /\ c.chunk_type = "merged" =>
                        /\ IsJoinedRun(c)
                        /\ \A m \in RunOf(c) :
                              Tok(tokenizer, section.content[m]) < cfg.min
                 /\ (c.chunk_type # "merged" /\ j > 0
                        /\ Tok(tokenizer, section.content[j]) < cfg.min) =>
                        \E b \in 1..(k - 1) :
                            /\ chunks[b].chunk_type = "merged"
                            /\ j \in RunOf(chunks[b])

\* a merged chunk was flushed in front of a 'paragraph' chunk although the two
\* together would have fitted MAX
FlushedAlthoughItFits ==
    \E k \in 1..(Len(chunks) - 1) :
        /\ chunks[k].chunk_type = "merged"
        /\ chunks[k + 1].chunk_type = "paragraph"
        /\ Tok(tokenizer, MergedCandidate(chunks[k].text, chunks[k + 1].text)) <= cfg.max

\* C20: every merged chunk is a run of consecutive paragraphs joined by the
\* blank-line separator in their order, its paragraph_index is the index of the
\* first paragraph of the run and its token_count is the tokenizer's count of
\* the joined text; two merged chunks never share a paragraph; and a buffer
\* left after the last paragraph is flushed as the last chunk of the section
MergedChunkShape ==
    pc \in {"para", "split", "done"} =>
        /\ \A k \in ChunkIndexes :
              chunks[k].chunk_type = "merged" =>
                  /\ IsJoinedRun(chunks[k])
                  /\ chunks[k].token_count = Tok(tokenizer, chunks[k].text)
                  /\ \A b \in 1..(k - 1) :
                        chunks[b].chunk_type = "merged" =>
                            chunks[b].paragraph_index + RunLen(chunks[b].text)
                                <= chunks[k].paragraph_index
        /\ (pc = "done" /\ section.content # <<>>
              /\ Tok(tokenizer, section.content[Len(section.content)]) < cfg.min) =>
              /\ chunks # <<>>
              /\ chunks[Len(chunks)].chunk_type = "merged"
              /\ Len(section.content) \in RunOf(chunks[Len(chunks)])

\* the section ended in a run of two different small paragraphs, flushed as
\* its last chunk after an earlier merged chunk
FinalRunFlushed ==
    /\ pc = "done"
    /\ Len(chunks) >= 2
    /\ chunks[1].chunk_type = "merged"
    /\ LET c == chunks[Len(chunks)]
       IN /\ c.chunk_type = "merged"
          /\ RunLen(c.text) >= 2
          /\ c.text[1] # c.text[Len(c.text)]

\* C17: the chunks table holds at most one row per chunk_id, a flush only adds
\* rows and never alters or removes a stored one, and a flush whose articles
\* are all stored already with the same content leaves the table as it was
ChunkInsertIfAbsent ==
    /\ [](\A x, y \in 1..Len(db_chunks) :
             db_chunks[x].chunk_id = db_chunks[y].chunk_id => x = y)
    /\ [][/\ Len(db_chunks') >= Len(db_chunks)
          /\ \A x \in 1..Len(db_chunks) : db_chunks'[x] = db_chunks[x]
          /\ (/\ article_buffer # <<>> /\ article_buffer' = <<>>
              /\ \A k \in 1..Len(article_buffer) :
                    \E x \in 1..Len(db_articles) : db_articles[x] = article_buffer[k])
                => db_chunks' = db_chunks]_vars

\* the same article was added twice and flushed each time, and the table
\* holds its chunks
SameArticleFlushedTwice ==
    /\ pc = "idle"
    /\ Len(added) = 2 /\ added[1] = added[2]
    /\ batch_size = 1
    /\ db_chunks # <<>>

\* a chunk row was offered whose chunk_id is stored with another text
ConflictingRowOffered ==
    /\ pc = "idle"
    /\ article_buffer # <<>>
    /\ \E k \in 1..Len(chunk_buffer) :
          \E x \in 1..Len(db_chunks) :
              /\ db_chunks[x].chunk_id = chunk_buffer[k].chunk_id
              /\ db_chunks[x].text # chunk_buffer[k].text

\* the merged chunks built so far whose run holds paragraph j (0-based)
MergedHolding(j) ==
    {k \in ChunkIndexes : chunks[k].chunk_type = "merged" /\ (j + 1) \in RunOf(chunks[k])}

\* the chunks of the given type built so far for paragraph j
TypedAt(j, type) ==
    {k \in ChunkIndexes : chunks[k].chunk_type = type /\ chunks[k].paragraph_index = j}

\* paragraph j is in the output in exactly one place: in one merged chunk, as
\* one 'paragraph' chunk, or as one unbroken sequence of 'split' chunks
RepresentedOnce(j) ==
    LET split == TypedAt(j, "split")
    IN /\ Cardinality(MergedHolding(j)) + Cardinality(TypedAt(j, "paragraph"))
            + (IF split = {} THEN 0 ELSE 1) = 1
       /\ TypedAt(j, "merged") \subseteq MergedHolding(j)
       /\ \A a, b \in split : \A k \in a..b : k \in split

\* what the merge buffer holds when the section chunker returns is in the
\* last chunk
BufferEmitted ==
    buffer_text # NoneText =>
        /\ chunks # <<>>
        /\ chunks[Len(chunks)].chunk_type = "merged"
        /\ chunks[Len(chunks)].text = buffer_text[1]

\* the claim as stated: when the section chunker returns, every paragraph of
\* the section is represented in exactly one place of the output
EveryParagraphCovered ==
    pc = "done" =>
        /\ \A j \in 0..(Len(section.content) - 1) : RepresentedOnce(j)
        /\ BufferEmitted

\* C21: when the section chunker returns, every paragraph of the section is
\* represented in exactly one place of the output (one merged chunk, one
\* 'paragraph' chunk or one 'split' sequence) and the merge buffer holds
\* nothing unemitted, except that a paragraph above MAX tokens in which there
\* is no sentence is represented nowhere
ParagraphCoverage ==
    pc = "done" =>
        /\ \A j \in 0..(Len(section.content) - 1) :
              IF ZeroSentenceParagraph(j)
              THEN ~HasChunkAt(j) /\ MergedHolding(j) = {}
              ELSE RepresentedOnce(j)
        /\ BufferEmitted

\* a section gave a merged chunk of two paragraphs, a 'paragraph' chunk and a
\* 'split' sequence of two windows, and ended on a flushed buffer
AllPlacesUsed ==
    /\ pc = "done"
    /\ \E k \in ChunkIndexes : chunks[k].chunk_type = "merged" /\ RunLen(chunks[k].text) >= 2
    /\ \E k \in ChunkIndexes : chunks[k].chunk_type = "paragraph"
    /\ \E j \in 0..(Len(section.content) - 1) : Cardinality(TypedAt(j, "split")) >= 2
    /\ buffer_text # NoneText

\* tokens of the sentences at positions a+1 .. b of the paragraph being split,
\* each counted on its own
RECURSIVE RunTokens(_, _)
RunTokens(a, b) ==
    IF b <= a THEN 0 ELSE RunTokens(a, b - 1) + Tok(tokenizer, <<sentences[b]>>)

\* position just after the last sentence of window k
WindowEnd(k) == starts[k] + Len(WindowSents(k))

\* where the cursor goes after a window of w sentences ending at e
CursorAfter(e, w) ==
    IF e < Len(sentences)
    THEN e - (IF cfg.overlap <= w - 1 THEN cfg.overlap ELSE w - 1)
    ELSE e

\* C22: each window of a split is the shortest run of consecutive sentences
\* from the cursor whose token sum reaches TARGET, or the run to the end of the
\* sentences, whatever its size against MAX; when sentences remain the next
\* window starts min(SENTENCE_OVERLAP, w - 1) sentences before the end of the
\* window of w sentences, and when none remain the cursor stays at the end.
\* Ten sentences of 70 tokens with TARGET 220 and overlap 1 give windows of
\* four sentences that overlap by exactly one.
WindowConstruction ==
    /\ Len(starts) = Len(chunks)
    /\ (pc = "split" /\ starts = <<>>) => cursor = 0
    /\ \A k \in 1..Len(starts) :
          LET a == starts[k]
              e == WindowEnd(k)
          IN /\ e > a
             /\ e <= Len(sentences)
             /\ WindowSents(k) = SubSeq(sentences, a + 1, e)
             /\ RunTokens(a, e) >= cfg.target \/ e = Len(sentences)
             /\ \A m \in (a + 1)..(e - 1) : RunTokens(a, m) < cfg.target
             /\ IF k < Len(starts)
                THEN e < Len(sentences) /\ starts[k + 1] = CursorAfter(e, e - a)
                ELSE pc = "split" => cursor = CursorAfter(e, e - a)
    /\ ( /\ sentences = LongParagraph
         /\ tokenizer = WhitespaceTokenizer
         /\ cfg.target = 220 /\ cfg.overlap = 1
         /\ pc # "split" )
       => /\ starts = <<0, 3, 6>>
          /\ \A k \in 1..Len(starts) :
                /\ Len(WindowSents(k)) = 4
                /\ k > 1 => Shared(k) = 1

\* a split returned in which a window of several sentences went above MAX
\* tokens and the window after it starts SENTENCE_OVERLAP sentences before its end
WindowAboveMaxThenOverlap ==
    /\ pc # "split"
    /\ cfg.overlap >= 1
    /\ \E k \in 1..(Len(starts) - 1) :
          /\ Len(WindowSents(k)) > cfg.overlap
          /\ chunks[k].token_count > cfg.max
          /\ starts[k + 1] = WindowEnd(k) - cfg.overlap

\* the split of the ten sentences of 70 tokens has returned
LongParagraphSplit ==
    /\ pc # "split"
    /\ sentences = LongParagraph
    /\ tokenizer = WhitespaceTokenizer
    /\ cfg.overlap = 1
    /\ Len(chunks) = 3

\* the places (section, position in its subsections) at which section a is attached
Attachments(a) ==
    {pk \in UNION {{<<p, k>> : k \in 1..Len(sections[p].subsections)} :
                      p \in 1..Len(sections)} :
        sections[pk[1]].subsections[pk[2]] = a}

\* the sections created before section a with a smaller level
ShallowerBefore(a) == {b \in 1..(a - 1) : sections[b].level < sections[a].level}

\* C23: the bottom of the section stack is the root, which is never popped,
\* and the levels on the stack strictly increase from bottom to top; every
\* section but the root is attached exactly once, to the most recently opened
\* section with a smaller level, so its level is strictly greater than its
\* parent's.
ValidTree ==
    /\ Len(section_stack) >= 1
    /\ section_stack[1] = 1
    /\ sections[1].level = 0
    /\ \A k \in 1..(Len(section_stack) - 1) :
          sections[section_stack[k]].level < sections[section_stack[k + 1]].level
    /\ Attachments(1) = {}
    /\ \A a \in 2..Len(sections) :
          /\ Cardinality(Attachments(a)) = 1
          /\ \A pk \in Attachments(a) :
                /\ sections[a].level > sections[pk[1]].level
                /\ ShallowerBefore(a) # {}
                /\ \A b \in ShallowerBefore(a) : b <= pk[1]
                /\ pk[1] \in ShallowerBefore(a)

\* the parser is at the end of a document in which a header at level 2 came
\* first under the root, a header at level 1 popped it, and a later header was
\* attached to a section that is neither the root nor the one opened just before it
StackPoppedAndNested ==
    /\ pc = "parse"
    /\ ln = Len(lines)
    /\ Len(sections) >= 4
    /\ sections[2].level = 2
    /\ sections[3].level = 1
    /\ Len(section_stack) = 3
    /\ \E a \in 3..Len(sections) : \E pk \in Attachments(a) : pk[1] # 1 /\ pk[1] # a - 1

\* line k of the document is neither blank nor a header
IsText(k) == lines[k].kind = "text"

\* number of header lines among the first k lines
HeadersUpTo(k) == Cardinality({h \in 1..k : lines[h].kind = "header"})

\* first lines of the maximal runs of text lines
RunStarts == {x \in 1..Len(lines) : IsText(x) /\ (x = 1 \/ ~IsText(x - 1))}

\* last line of the maximal run that starts at line x
RunEnd(x) ==
    CHOOSE y \in x..Len(lines) :
        /\ \A k \in x..y : IsText(k)
        /\ y = Len(lines) \/ ~IsText(y + 1)

\* the lines x..y, each trimmed, joined with single spaces, trimmed
LinesText(x, y) == Strip(Join(<<SP>>, [k \in 1..(y - x + 1) |-> Strip(lines[x + k - 1].text)]))

\* the runs after the header that opened section a (before any header, for the
\* root) and before the next one, that are over at the parser's position: a
\* line after the run was read, or the end of the input was reached
RunsOf(a) ==
    {x \in RunStarts : HeadersUpTo(x) = a - 1 /\ (RunEnd(x) < ln \/ pc # "parse")}

\* their paragraphs in line order
ParagraphsOf(a) ==
    LET S == RunsOf(a)
    IN [r \in 1..Cardinality(S) |->
            LET x == CHOOSE x \in S : Cardinality({y \in S : y < x}) = r - 1
            IN LinesText(x, RunEnd(x))]

\* the text lines at the end of the lines read so far
PendingLines ==
    LET T == {x \in 1..ln : \A k \in x..ln : IsText(k)}
    IN [r \in 1..Cardinality(T) |-> Strip(lines[ln - Cardinality(T) + r].text)]

\* C24: each maximal run of consecutive non-blank, non-header lines becomes
\* exactly one paragraph, its lines trimmed and joined with single spaces, in
\* the content of the section opened by the nearest header before it (of the
\* root if there is none), in line order; a header flushes the pending run
\* into the section that was current before it; no empty paragraph is stored;
\* the run pending at the end of the input is flushed.
ParagraphAssembly ==
    /\ ln <= Len(lines)
    /\ pc # "parse" => ln = Len(lines)
    /\ Len(sections) = 1 + HeadersUpTo(ln)
    /\ current_paragraph_lines = IF pc = "parse" THEN PendingLines ELSE <<>>
    /\ \A a \in 1..Len(sections) :
          /\ sections[a].content = ParagraphsOf(a)
          /\ \A k \in 1..Len(sections[a].content) : sections[a].content[k] # <<>>

\* the end of the input was reached on a document of two text lines, a
\* header and a text line: one paragraph of two lines in the root, and the run
\* that was pending at the end in the section of the header
RunsFlushedByHeaderAndEnd ==
    /\ pc = "visit"
    /\ todo = <<1>>
    /\ Len(lines) = 4
    /\ IsText(1) /\ IsText(2) /\ lines[3].kind = "header" /\ IsText(4)
    /\ sections[1].content = <<<<"s", SP, "s">>>>
    /\ sections[2].content = <<<<"s">>>>

\* the key a chunk has within its section
PositionKey(c) == <<c.paragraph_index, c.subchunk_index>>

\* C25: within the output of one section the pairs (paragraph_index,
\* subchunk_index) of the chunks are pairwise distinct, and so are the strings
\* their chunk_id is computed from; in particular a merged
\* chunk shares its paragraph_index with no paragraph chunk and no other merged chunk.
PositionKeysDistinct ==
    \A k, m \in ChunkIndexes :
        /\ k # m => PositionKey(chunks[k]) # PositionKey(chunks[m])
        /\ k # m => chunks[k].chunk_id # chunks[m].chunk_id
        /\ (k # m /\ chunks[k].chunk_type = "merged" /\ chunks[m].chunk_type # "split")
              => chunks[k].paragraph_index # chunks[m].paragraph_index

\* a finished section with two merged chunks, a paragraph chunk and two
\* windows of one split paragraph
AllKindsOfKeys ==
    /\ pc = "done"
    /\ \E k, m \in ChunkIndexes :
          k # m /\ chunks[k].chunk_type = "merged" /\ chunks[m].chunk_type = "merged"
    /\ \E k \in ChunkIndexes : chunks[k].chunk_type = "paragraph"
    /\ \E k, m \in ChunkIndexes :
          /\ k # m
          /\ chunks[k].chunk_type = "split" /\ chunks[m].chunk_type = "split"
          /\ chunks[k].paragraph_index = chunks[m].paragraph_index

\* C26: every window of a split after the first ends strictly after the end
\* of the window before it, so that it holds at least one sentence that no
\* earlier window of the paragraph held.
WindowEndsIncrease ==
    \A k \in 2..Len(starts) : WindowEnd(k) > WindowEnd(k - 1)

\* C27: when the chunker raises inside add_article, the three buffers are as
\* they were before the call.
AddArticleAllOrNothing ==
    pc = "raised" => bufferVars = at_call

\* after a failed add_article a flush stored the article and its assets, and
\* no chunk of it
StoredWithoutChunks ==
    /\ pc = "idle"
    /\ \E k \in 1..Len(db_articles) :
          /\ \E a \in 1..Len(db_assets) :
                db_assets[a].article_zim_path = db_articles[k].zim_path
          /\ \A c \in 1..Len(db_chunks) :
                db_chunks[c].article_zim_path # db_articles[k].zim_path

\* ----------------------------------------------------------- WikiShredder
MaxCalls == 3        \* process calls on one WikiShredder

\* An HTML document is the sequence of its elements that process looks at:
\* "infobox" (table.infobox), "wikitable" (table.wikitable of five rows or
\* more), "smalltable" (a wikitable of fewer rows), "img" (with a src),
\* "imgnosrc", "script" and "p"; ref is the id put into the DOM for it.
NoUid == [prefix |-> "", hex |-> 0]
Element(tag) == [tag |-> tag, ref |-> NoUid]
ShredDocs ==
    {<<Element("p")>>,
     <<Element("script"), Element("img"), Element("p")>>,
     <<Element("infobox"), Element("wikitable")>>,
     <<Element("smalltable"), Element("imgnosrc")>>,
     <<Element("img"), Element("infobox"), Element("img")>>}

\* uuid.uuid4().hex[:8]: a random draw among the 16^8 values, which can give
\* a value it gave before.  Which value comes out matters only through the
\* earlier ids of the same prefix it is equal to, so the values drawn under a
\* prefix are named 1, 2, ... in the order of their first appearance.  With
\* known values drawn before, the outcomes of count further draws are the
\* sequences in which every draw is a value drawn before or the next new one.
HexDraws(known, count) ==
    {hexes \in [1..count -> 1..(known + count)] :
        \A j \in 1..count : \A v \in (known + 1)..(hexes[j] - 1) :
            \E m \in 1..(j - 1) : hexes[m] = v}

\* generate_id(prefix), given the hex digits drawn: f"{prefix}_{hex}"
GenerateId(prefix, hex) == [prefix |-> prefix, hex |-> hex]

\* soup.find_all(...): the positions of the elements with this tag, in document order
Positions(doc, tag) ==
    SelectSeq([k \in 1..Len(doc) |-> k], LAMBDA k : doc[k].tag = tag)

\* the (uid, data) pairs of the loop "for element in find_all: uid =
\* generate_id(prefix); self.sidecar[field][uid] = data", hexes[j] being the
\* digits drawn for the j-th element
NewEntries(doc, tag, prefix, hexes) ==
    [j \in 1..Len(hexes) |-> [uid |-> GenerateId(prefix, hexes[j]), data |-> tag]]

\* d[uid] = data on a dict kept as the sequence of its items: an existing key
\* keeps its place and gets the new data, a new key goes to the end
DictSet(items, entry) ==
    IF \E k \in 1..Len(items) : items[k].uid = entry.uid
    THEN [k \in 1..Len(items) |-> IF items[k].uid = entry.uid THEN entry ELSE items[k]]
    ELSE Append(items, entry)

RECURSIVE DictSetAll(_, _)
\* the assignments of the loop, one after the other
DictSetAll(items, entries) ==
    IF entries = <<>> THEN items
    ELSE DictSetAll(DictSet(items, Head(entries)), Tail(entries))

\* the DOM after the loop: element j of that tag carries its id (replace_with
\* of a token string, or the rewritten src and alt of an img)
Tagged(doc, tag, new_tag, prefix, hexes) ==
    [k \in 1..Len(doc) |->
        IF doc[k].tag = tag
        THEN [tag |-> new_tag,
              ref |-> GenerateId(prefix,
                                 hexes[1 + Cardinality({m \in 1..(k - 1) : doc[m].tag = tag})])]
        ELSE doc[k]]

\* the ids of a sequence of entries
UidsOf(entries) == {entries[j].uid : j \in 1..Len(entries)}

\* the value "sidecar": self.sidecar of a returned dict: a reference to the
\* one dict object created in __init__
SidecarRef == "self.sidecar"
\* the dict a reference leads to, as it is now
Deref(ref) == sidecar

\* process(html_content, article_title), lines 25-33: parse, drop script and style
Process ==
    /\ pc = "ready" /\ Len(processed) < MaxCalls
    /\ \E doc \in ShredDocs :
          html' = SelectSeq(doc, LAMBDA e : e.tag # "script")
    /\ observed' = Append(observed, [own |-> {}, at_return |-> EmptySidecar])
    /\ pc' = "infoboxes"
    /\ UNCHANGED <<inputVars, parseVars, sectionVars, chunks, splitVars, out, todo,
                   run, first, keys, returned, tokenizer_func, storeVars,
                   sidecar, processed>>

\* what an extraction step does for the elements of one tag, whatever the
\* digits generate_id draws for them; every id drawn under a prefix is a key
\* of its dict, which is never emptied, so the values drawn before are its keys
Extraction(tag, new_tag, prefix, field) ==
    \E hexes \in HexDraws(Len(sidecar[field]), Len(Positions(html, tag))) :
        LET entries == NewEntries(html, tag, prefix, hexes)
        IN /\ sidecar' = [sidecar EXCEPT ![field] = DictSetAll(@, entries)]
           /\ html' = Tagged(html, tag, new_tag, prefix, hexes)
           /\ observed' = [observed EXCEPT ![Len(observed)].own = @ \cup UidsOf(entries)]

\* _extract_infoboxes: every infobox goes to sidecar['infoboxes'] and is
\* replaced by a token
ExtractInfoboxes ==
    /\ pc = "infoboxes"
    /\ Extraction("infobox", "token", "INFO", "infoboxes")
    /\ pc' = "tables"
    /\ UNCHANGED <<inputVars, parseVars, sectionVars, chunks, splitVars, out, todo,
                   run, first, keys, returned, tokenizer_func, storeVars, processed>>

\* _extract_tables: every wikitable of five rows or more goes to sidecar['tables']
ExtractTables ==
    /\ pc = "tables"
    /\ Extraction("wikitable", "token", "TBL", "tables")
    /\ pc' = "images"
    /\ UNCHANGED <<inputVars, parseVars, sectionVars, chunks, splitVars, out, todo,
                   run, first, keys, returned, tokenizer_func, storeVars, processed>>

\* _process_images: every img with a src goes to sidecar['images'] and stays
\* in the DOM with a rewritten src
ProcessImages ==
    /\ pc = "images"
    /\ Extraction("img", "zim", "IMG", "images")
    /\ pc' = "convert"
    /\ UNCHANGED <<inputVars, parseVars, sectionVars, chunks, splitVars, out, todo,
                   run, first, keys, returned, tokenizer_func, storeVars, processed>>

\* lines 45-76: math, table of contents, Markdown, abstract, and the returned
\* dict, whose "sidecar" is self.sidecar
ProcessReturn ==
    /\ pc = "convert"
    /\ processed' = Append(processed, [content |-> html, sidecar |-> SidecarRef])
    /\ observed' = [observed EXCEPT ![Len(observed)].at_return = sidecar]
    /\ pc' = "ready"
    /\ UNCHANGED <<inputVars, parseVars, sectionVars, chunks, splitVars, out, todo,
                   run, first, keys, returned, tokenizer_func, storeVars,
                   html, sidecar>>

\* WikiShredder() after __init__
InitShred ==
    /\ cfg = DefaultConfig
    /\ tokenizer = WhitespaceTokenizer
    /\ tokenizer_func = NoneText
    /\ NoStorage
    /\ NoShredder
    /\ article_id = <<>>
    /\ lines = <<>>
    /\ sections = <<RootSection>>
    /\ section_stack = <<1>>
    /\ current_section = 1
    /\ current_paragraph_lines = <<>>
    /\ ln = 0
    /\ todo = <<>>
    /\ cur = 1
    /\ i = 0
    /\ buffer_text = NoneText
    /\ buffer_idx = -1
    /\ chunks = <<>>
    /\ sentences = <<>>
    /\ cursor = 0
    /\ sub_idx = 0
    /\ starts = <<>>
    /\ out = <<>>
    /\ run = 1
    /\ first = <<>>
    /\ keys = <<>>
    /\ returned = <<>>
    /\ pc = "ready"

NextShred ==
    \/ Process
    \/ ExtractInfoboxes
    \/ ExtractTables
    \/ ProcessImages
    \/ ProcessReturn

SpecShred == InitShred /\ [][NextShred]_vars

\* all the ids a sidecar holds
SidecarUids(sc) ==
    UidsOf(sc.images) \cup UidsOf(sc.tables) \cup UidsOf(sc.infoboxes) \cup UidsOf(sc.formulas)

\* C28: the sidecar of the dict a process call returned holds only what was
\* extracted from the document of that call, and it stays as it was when the
\* call returned, whatever calls follow on the same WikiShredder.
SidecarOfOwnCall ==
    \A k \in 1..Len(processed) :
        /\ SidecarUids(Deref(processed[k].sidecar)) \subseteq observed[k].own
        /\ Deref(processed[k].sidecar) = observed[k].at_return

\* a call returned on a document whose two images drew the same id: both
\* carry it in the DOM and the sidecar holds one entry for the two
RepeatedIdOverwrote ==
    /\ pc = "ready"
    /\ Len(processed) = 1
    /\ \E a, b \in 1..Len(html) :
          a # b /\ html[a].tag = "zim" /\ html[b].tag = "zim" /\ html[a].ref = html[b].ref
    /\ Len(sidecar.images) = 1

\* every process call was on the document of two images and an infobox, and
\* no id drawn repeats an earlier one: one entry per element in the sidecar
AllIdsDiffer ==
    /\ pc = "ready"
    /\ Len(processed) = MaxCalls
    /\ Len(sidecar.images) = 2 * MaxCalls
    /\ Len(sidecar.infoboxes) = MaxCalls

====
